---- MODULE Spec2Model ----
(***************************************************************************)
(* camelot/core.py: the Cell / Table grid model with its boundary          *)
(* assignment (set_all_edges, set_border, set_edges) and span inference    *)
(* (set_span), and TableList.export with its per-table files and archive.  *)
(*                                                                         *)
(* Python indices are 0-based; the model keeps the 0-based values of       *)
(* i, j, k, J, K, L and converts at the point of subscription (PyIdx).     *)
(***************************************************************************)
EXTENDS Integers, Sequences, FiniteSets, TLC

VARIABLES cols, rows, cells, pre, last, err, nops,
          tables, scratch, dest, zips, call

vars == <<cols, rows, cells, pre, last, err, nops,
          tables, scratch, dest, zips, call>>

tableVars == <<cols, rows, cells, pre, last, err, nops>>
exportVars == <<tables, scratch, dest, zips, call>>

(***************************************************************************)
(* Bounds of the exploration.                                              *)
(***************************************************************************)
MaxRows == 2
MaxCols == 2
MaxLines == 1
LifeOps == 4
MaxTables == 3
MaxPage == 2

\* widths / heights of the proposed grid intervals
CellSizes == {10}
\* joint_close_tol values tried (2 is the default of set_edges)
Tols == {2, 10}

Abs(x) == IF x < 0 THEN -x ELSE x

(***************************************************************************)
(* np.isclose(a, b, atol=tol): |a - b| <= atol + rtol * |b| with the       *)
(* default rtol = 1e-5, computed here in integers scaled by 10^5.          *)
(***************************************************************************)
RtolInv == 100000

isclose(a, b, atol) == RtolInv * Abs(a - b) <= RtolInv * atol + Abs(b)

(***************************************************************************)
(* Cell.__init__: all flags False.                                         *)
(***************************************************************************)
Cell == [left |-> FALSE, right |-> FALSE, top |-> FALSE, bottom |-> FALSE,
         hspan |-> FALSE, vspan |-> FALSE]

B2N(b) == IF b THEN 1 ELSE 0

\* Cell.bound
bound(cell) == B2N(cell.top) + B2N(cell.bottom) + B2N(cell.left) + B2N(cell.right)

\* Table.__init__: cells = [[Cell(...) for c in cols] for r in rows]
NewCells(cs, rs) == [r \in 1..Len(rs) |-> [c \in 1..Len(cs) |-> Cell]]

(***************************************************************************)
(* Python subscription of a list of length n with index idx: a negative    *)
(* index counts from the end; anything outside -n..n-1 is an IndexError.   *)
(***************************************************************************)
InRange(n, idx) == -n <= idx /\ idx < n
PyIdx(n, idx) == IF idx < 0 THEN idx + n + 1 ELSE idx + 1

\* [i for i, t in enumerate(seq) if np.isclose(x, t[0], atol=tol)], as the
\* increasing list of 0-based indices
RECURSIVE MatchFrom(_, _, _, _)
MatchFrom(seq, x, tol, n) ==
    IF n > Len(seq) THEN <<>>
    ELSE (IF isclose(x, seq[n][1], tol) THEN <<n - 1>> ELSE <<>>)
         \o MatchFrom(seq, x, tol, n + 1)

Matches(seq, x, tol) == MatchFrom(seq, x, tol, 1)

\* v[n] for a Python tuple
At(v, n) == v[n + 1]

(***************************************************************************)
(* The loops "while J < K: self.cells[a][b].flag = True; J += 1".           *)
(* MarkRows sets `flag` on column index Lidx for the rows J..K-1;          *)
(* MarkCols sets `flag` on row index Lidx for the columns J..K-1.          *)
(* Lidx is a Python index (it may be -1).                                  *)
(***************************************************************************)
MarkRows(cs, J, K, Lidx, flag) ==
    [r \in 1..Len(cs) |->
        IF J <= r - 1 /\ r - 1 < K
        THEN [cs[r] EXCEPT ![PyIdx(Len(cs[r]), Lidx)][flag] = TRUE]
        ELSE cs[r]]

MarkCols(cs, J, K, Lidx, flag) ==
    [r \in 1..Len(cs) |->
        IF r = PyIdx(Len(cs), Lidx)
        THEN [c \in 1..Len(cs[r]) |->
                 IF J <= c - 1 /\ c - 1 < K
                 THEN [cs[r][c] EXCEPT ![flag] = TRUE]
                 ELSE cs[r][c]]
        ELSE cs[r]]

(***************************************************************************)
(* The locals of one set_edges call that outlive a loop iteration: the     *)
(* grid, the local L (unbound until first assigned) and the exception      *)
(* that ended the call, if any.                                            *)
(***************************************************************************)
Frame(cs) == [cells |-> cs, Lset |-> FALSE, L |-> 0, err |-> "none"]

\* VStep with the row anchors exchanged: J from v[1], K from v[3]
VStep_swapped(f, cl, rw, v, tol) ==
    IF f.err # "none" THEN f
    ELSE
    LET i == Matches(cl, At(v, 0), tol)
        j == Matches(rw, At(v, 1), tol)
        k == Matches(rw, At(v, 3), tol)
    IN  IF j = <<>> THEN f
        ELSE
        LET J == j[1]
            K == IF k # <<>> THEN k[1] ELSE Len(rw)
        IN  IF i = <<0>> THEN
                [f EXCEPT !.Lset = TRUE, !.L = i[1],
                          !.cells = MarkRows(f.cells, J, K, i[1], "left")]
            ELSE IF i = <<>> THEN
                [f EXCEPT !.Lset = TRUE, !.L = Len(cl) - 1,
                          !.cells = MarkRows(f.cells, J, K, Len(cl) - 1, "right")]
            ELSE
                [f EXCEPT !.Lset = TRUE, !.L = i[1],
                          !.cells = MarkRows(MarkRows(f.cells, J, K, i[1], "left"),
                                             J, K, i[1] - 1, "right")]

\* set_edges, body of "for v in vertical" (lines 179-228)
VStep(f, cl, rw, v, tol) ==
    IF f.err # "none" THEN f
    ELSE
    LET i == Matches(cl, At(v, 0), tol)
        j == Matches(rw, At(v, 3), tol)
        k == Matches(rw, At(v, 1), tol)
    IN  IF j = <<>> THEN f
        ELSE
        LET J == j[1]
            K == IF k # <<>> THEN k[1] ELSE Len(rw)
        IN  IF i = <<0>> THEN
                [f EXCEPT !.Lset = TRUE, !.L = i[1],
                          !.cells = MarkRows(f.cells, J, K, i[1], "left")]
            ELSE IF i = <<>> THEN
                [f EXCEPT !.Lset = TRUE, !.L = Len(cl) - 1,
                          !.cells = MarkRows(f.cells, J, K, Len(cl) - 1, "right")]
            ELSE
                [f EXCEPT !.Lset = TRUE, !.L = i[1],
                          !.cells = MarkRows(MarkRows(f.cells, J, K, i[1], "left"),
                                             J, K, i[1] - 1, "right")]

\* set_edges, body of "for h in horizontal" (lines 230-279)
HStep(f, cl, rw, h, tol) ==
    IF f.err # "none" THEN f
    ELSE
    LET i == Matches(rw, At(h, 1), tol)
        j == Matches(cl, At(h, 0), tol)
        k == Matches(cl, At(h, 2), tol)
    IN  IF j = <<>> THEN f
        ELSE
        LET J == j[1]
            K == IF k # <<>> THEN k[1] ELSE Len(cl)
        IN  IF i = <<0>> THEN
                [f EXCEPT !.Lset = TRUE, !.L = i[1],
                          !.cells = MarkCols(f.cells, J, K, i[1], "top")]
            ELSE IF i = <<>> THEN
                \* I = len(self.rows) - 1 is assigned and never read; the
                \* loop subscripts self.cells[L][J] with whatever L holds
                IF ~(J < K) THEN f
                ELSE IF ~f.Lset THEN [f EXCEPT !.err = "UnboundLocalError"]
                ELSE IF ~InRange(Len(rw), f.L) THEN [f EXCEPT !.err = "IndexError"]
                ELSE [f EXCEPT !.cells = MarkCols(f.cells, J, K, f.L, "bottom")]
            ELSE
                [f EXCEPT !.Lset = TRUE, !.L = i[1],
                          !.cells = MarkCols(MarkCols(f.cells, J, K, i[1], "top"),
                                             J, K, i[1] - 1, "bottom")]

RECURSIVE VLoop(_, _, _, _, _)
VLoop(f, cl, rw, vertical, tol) ==
    IF vertical = <<>> THEN f
    ELSE VLoop(VStep(f, cl, rw, Head(vertical), tol), cl, rw, Tail(vertical), tol)

RECURSIVE HLoop(_, _, _, _, _)
HLoop(f, cl, rw, horizontal, tol) ==
    IF horizontal = <<>> THEN f
    ELSE HLoop(HStep(f, cl, rw, Head(horizontal), tol), cl, rw, Tail(horizontal), tol)

\* Table.set_edges(vertical, horizontal, joint_close_tol): the frame at return
\* (or at the raise)
set_edges_run(cs, cl, rw, vertical, horizontal, tol) ==
    HLoop(VLoop(Frame(cs), cl, rw, vertical, tol), cl, rw, horizontal, tol)

\* Table.set_all_edges
all_edges_cell(cell) ==
    [cell EXCEPT !.left = TRUE, !.right = TRUE, !.top = TRUE, !.bottom = TRUE]

set_all_edges_run(cs) ==
    [r \in 1..Len(cs) |-> [c \in 1..Len(cs[r]) |-> all_edges_cell(cs[r][c])]]

\* set_border with the right edge put one column short of the last
border_cell_short(cell, r, c, N, M) ==
    [cell EXCEPT !.left = (cell.left \/ c = 1),
                 !.right = (cell.right \/ c = M - 1),
                 !.top = (cell.top \/ r = 1),
                 !.bottom = (cell.bottom \/ r = N)]

\* set_border that assigns each flag the outcome of its perimeter test
border_cell_assign(cell, r, c, N, M) ==
    [cell EXCEPT !.left = (c = 1),
                 !.right = (c = M),
                 !.top = (r = 1),
                 !.bottom = (r = N)]

\* Table.set_border
border_cell(cell, r, c, N, M) ==
    [cell EXCEPT !.left = (cell.left \/ c = 1),
                 !.right = (cell.right \/ c = M),
                 !.top = (cell.top \/ r = 1),
                 !.bottom = (cell.bottom \/ r = N)]

set_border_run(cs) ==
    [r \in 1..Len(cs) |->
        [c \in 1..Len(cs[r]) |-> border_cell(cs[r][c], r, c, Len(cs), Len(cs[r]))]]

\* set_span with the "missing top" branch marking hspan, as the two branches
\* above it do
span_cell_copied(cell) ==
    LET left == cell.left
        right == cell.right
        top == cell.top
        bottom == cell.bottom
    IN  IF bound(cell) = 4 THEN cell
        ELSE IF bound(cell) = 3 THEN
            IF ~left /\ (right /\ top /\ bottom) THEN [cell EXCEPT !.hspan = TRUE]
            ELSE IF ~right /\ (left /\ top /\ bottom) THEN [cell EXCEPT !.hspan = TRUE]
            ELSE IF ~top /\ (left /\ right /\ bottom) THEN [cell EXCEPT !.hspan = TRUE]
            ELSE IF ~bottom /\ (left /\ right /\ top) THEN [cell EXCEPT !.vspan = TRUE]
            ELSE cell
        ELSE IF bound(cell) = 2 THEN
            IF left /\ right /\ (~top /\ ~bottom) THEN [cell EXCEPT !.vspan = TRUE]
            ELSE IF top /\ bottom /\ (~left /\ ~right) THEN [cell EXCEPT !.hspan = TRUE]
            ELSE cell
        ELSE cell

\* set_span that tests the bounded pairs without testing bound
span_cell_pairs(cell) ==
    [cell EXCEPT !.hspan = (cell.hspan \/ (cell.top /\ cell.bottom)),
                 !.vspan = (cell.vspan \/ (cell.left /\ cell.right))]

\* Table.set_span, body of the inner loop (lines 300-319)
span_cell(cell) ==
    LET left == cell.left
        right == cell.right
        top == cell.top
        bottom == cell.bottom
    IN  IF bound(cell) = 4 THEN cell
        ELSE IF bound(cell) = 3 THEN
            IF ~left /\ (right /\ top /\ bottom) THEN [cell EXCEPT !.hspan = TRUE]
            ELSE IF ~right /\ (left /\ top /\ bottom) THEN [cell EXCEPT !.hspan = TRUE]
            ELSE IF ~top /\ (left /\ right /\ bottom) THEN [cell EXCEPT !.vspan = TRUE]
            ELSE IF ~bottom /\ (left /\ right /\ top) THEN [cell EXCEPT !.vspan = TRUE]
            ELSE cell
        ELSE IF bound(cell) = 2 THEN
            IF left /\ right /\ (~top /\ ~bottom) THEN [cell EXCEPT !.vspan = TRUE]
            ELSE IF top /\ bottom /\ (~left /\ ~right) THEN [cell EXCEPT !.hspan = TRUE]
            ELSE cell
        ELSE cell

set_span_run(cs) ==
    [r \in 1..Len(cs) |-> [c \in 1..Len(cs[r]) |-> span_cell(cs[r][c])]]

(***************************************************************************)
(* Inputs.  A grid proposal is a contiguous list of column intervals       *)
(* (x_left, x_right), increasing, and of row intervals (y_top, y_bottom),  *)
(* decreasing.  Detected lines are 4-tuples whose coordinates are drawn    *)
(* from the grid's own boundary coordinates.                               *)
(***************************************************************************)
MkCols(M, w) == [c \in 1..M |-> <<w * (c - 1), w * c>>]
MkRows(N, h) == [r \in 1..N |-> <<h * (N - r + 1), h * (N - r)>>]

XCoords(cl) == {cl[c][1] : c \in 1..Len(cl)} \cup {cl[Len(cl)][2]}
YCoords(rw) == {rw[r][1] : r \in 1..Len(rw)} \cup {rw[Len(rw)][2]}

\* (x, y1, x, y2): set_edges reads v[0], v[1] and v[3]
VLines(cl, rw) ==
    {<<x, y1, x, y2>> : x \in XCoords(cl), y1 \in YCoords(rw), y2 \in YCoords(rw)}
\* (x1, y, x2, y): set_edges reads h[0], h[1] and h[2]
HLines(cl, rw) ==
    {<<x1, y, x2, y>> : x1 \in XCoords(cl), x2 \in XCoords(cl), y \in YCoords(rw)}

\* lines that run the whole height / width of the grid
FullVLines(cl, rw) ==
    {<<x, rw[Len(rw)][2], x, rw[1][1]>> : x \in XCoords(cl)}
FullHLines(cl, rw) ==
    {<<cl[1][1], y, cl[Len(cl)][2], y>> : y \in YCoords(rw)}

\* the (vertical, horizontal) argument pairs with at most maxl lines in all
UpTo(VL, HL, maxl) ==
    UNION {[1..nv -> VL] \X [1..nh -> HL] :
              <<nv, nh>> \in {p \in (0..maxl) \X (0..maxl) : p[1] + p[2] <= maxl}}
\* no line, or a single line of either kind
Single(VL, HL) ==
    {<<<<>>, <<>>>>} \cup {<<<<v>>, <<>>>> : v \in VL} \cup {<<<<>>, <<h>>>> : h \in HL}
\* one vertical line, then one horizontal line
Crossed(VL, HL) == {<<<<v>>, <<h>>>> : v \in VL, h \in HL}

NoCall == [op |-> "none", vertical |-> <<>>, horizontal |-> <<>>, tol |-> 0]
Call(op) == [NoCall EXCEPT !.op = op]

TableInit ==
    /\ \E N \in 1..MaxRows, M \in 1..MaxCols, w \in CellSizes, h \in CellSizes :
          /\ cols = MkCols(M, w)
          /\ rows = MkRows(N, h)
    /\ cells = NewCells(cols, rows)
    /\ pre = cells
    /\ last = NoCall
    /\ err = "none"
    /\ nops = 0

ExportIdle ==
    /\ tables = <<>>
    /\ scratch = <<>>
    /\ dest = <<>>
    /\ zips = <<>>
    /\ call = [f |-> "none", compress |-> FALSE]

Init == TableInit /\ ExportIdle

(***************************************************************************)
(* Table operations.  pre, last and err record the grid before the call,   *)
(* the call and its arguments, and the exception it raised ("none" when it *)
(* returned).                                                              *)
(***************************************************************************)
set_all_edges ==
    /\ cells' = set_all_edges_run(cells)
    /\ pre' = cells
    /\ last' = Call("set_all_edges")
    /\ err' = "none"

set_border ==
    /\ cells' = set_border_run(cells)
    /\ pre' = cells
    /\ last' = Call("set_border")
    /\ err' = "none"

set_span ==
    /\ cells' = set_span_run(cells)
    /\ pre' = cells
    /\ last' = Call("set_span")
    /\ err' = "none"

set_edges(Args, T) ==
    \E a \in Args, tol \in T :
        LET f == set_edges_run(cells, cols, rows, a[1], a[2], tol)
        IN  /\ cells' = f.cells
            /\ pre' = cells
            /\ last' = [op |-> "set_edges", vertical |-> a[1],
                        horizontal |-> a[2], tol |-> tol]
            /\ err' = f.err

Step(A) ==
    /\ A
    /\ nops' = nops + 1
    /\ UNCHANGED <<cols, rows>>
    /\ UNCHANGED exportVars

(***************************************************************************)
(* Spec: the first call made on a freshly constructed Table, with every    *)
(* list of at most MaxLines detected lines, and with one vertical line     *)
(* followed by one horizontal line.                                        *)
(***************************************************************************)
Fresh == nops = 0

Next ==
    \/ Fresh /\ Step(set_all_edges)
    \/ Fresh /\ Step(set_border)
    \/ Fresh /\ Step(set_span)
    \/ Fresh /\ Step(set_edges(UpTo(VLines(cols, rows), HLines(cols, rows), MaxLines)
                               \cup Crossed(VLines(cols, rows), HLines(cols, rows)), Tols))

Spec == Init /\ [][Next]_vars

(***************************************************************************)
(* SpecLife: up to LifeOps calls in any order on one Table, where a call   *)
(* of set_edges passes lines that run the whole height or width of the      *)
(* grid: none or one of them.                                               *)
(***************************************************************************)
Alive == nops < LifeOps

NextLife ==
    \/ Alive /\ Step(set_all_edges)
    \/ Alive /\ Step(set_border)
    \/ Alive /\ Step(set_span)
    \/ Alive /\ Step(set_edges(Single(FullVLines(cols, rows), FullHLines(cols, rows)),
                             Tols))

SpecLife == Init /\ [][NextLife]_vars

(***************************************************************************)
(* TableList.export.  A directory is a function from file names to file    *)
(* contents; a written table file holds the format and the position in     *)
(* the list of the table written last under that name; an archive is the   *)
(* sequence of its entries, in the order z.write appended them (ZipFile    *)
(* appends an entry also when the name is already in the archive).         *)
(***************************************************************************)
Formats == {"csv", "json", "html", "excel"}
Path == [dir |-> "out", root |-> "tables", ext |-> ".ext"]

TableLists ==
    UNION {[1..n -> [page : 1..MaxPage, order : 1..MaxPage]] : n \in 0..MaxTables}

\* '{}-page-{}-table-{}{}'.format(root, table.page, table.order, ext)
Filename(root, table, ext) == <<root, "-page-", table.page, "-table-", table.order, ext>>

\* 'page-{}-table-{}'.format(table.page, table.order)
SheetName(table) == <<"page-", table.page, "-table-", table.order>>

\* dir with file `name` written (created or overwritten)
WriteTo(dir, name, content) ==
    [n \in (DOMAIN dir) \cup {name} |-> IF n = name THEN content ELSE dir[n]]

\* TableList._write_file: the directory after the loop over self._tables
RECURSIVE write_file_from(_, _, _, _, _, _)
write_file_from(dir, tl, f, root, ext, n) ==
    IF n > Len(tl) THEN dir
    ELSE write_file_from(
             WriteTo(dir, Filename(root, tl[n], ext), [format |-> f, table |-> n]),
             tl, f, root, ext, n + 1)

write_file(dir, tl, f, root, ext) == write_file_from(dir, tl, f, root, ext, 1)

\* _compress_dir that adds each file name once
RECURSIVE compress_once_from(_, _, _, _, _)
compress_once_from(dir, tl, root, ext, n) ==
    IF n > Len(tl) THEN <<>>
    ELSE (IF \E m \in 1..(n - 1) : Filename(root, tl[m], ext) = Filename(root, tl[n], ext)
          THEN <<>>
          ELSE <<[name |-> Filename(root, tl[n], ext),
                  data |-> dir[Filename(root, tl[n], ext)]]>>)
         \o compress_once_from(dir, tl, root, ext, n + 1)

compress_dir_once(dir, tl, root, ext) == compress_once_from(dir, tl, root, ext, 1)

\* TableList._compress_dir: the entries of the archive written at zipname
compress_dir(dir, tl, root, ext) ==
    [n \in 1..Len(tl) |->
        [name |-> Filename(root, tl[n], ext), data |-> dir[Filename(root, tl[n], ext)]]]

\* os.path.join(os.path.dirname(path), root) + '.zip'
Zipname(path) == <<path.dir, path.root, ".zip">>

\* the workbook written by the excel branch: one sheet per table
Workbook(tl) == [format |-> "excel", sheets |-> [n \in 1..Len(tl) |-> SheetName(tl[n])]]

InitExport ==
    /\ cols = MkCols(1, 10)
    /\ rows = MkRows(1, 10)
    /\ cells = NewCells(cols, rows)
    /\ pre = cells
    /\ last = NoCall
    /\ err = "none"
    /\ nops = 0
    /\ tables \in TableLists
    /\ scratch = <<>>
    /\ dest = <<>>
    /\ zips = <<>>
    /\ call = [f |-> "none", compress |-> FALSE]

\* TableList.export(path, f, compress): what every branch shares
exported(f, compress) ==
    /\ call.f = "none"
    /\ call' = [f |-> f, compress |-> compress]
    /\ UNCHANGED tables
    /\ UNCHANGED tableVars

\* TableList.export(path, f, compress), the csv / json / html branch
export_files ==
    \E f \in Formats \ {"excel"}, compress \in BOOLEAN :
        /\ exported(f, compress)
        /\ IF compress
           THEN /\ scratch' = write_file(<<>>, tables, f, Path.root, Path.ext)
                /\ zips' = WriteTo(zips, Zipname(Path),
                                   compress_dir(scratch', tables, Path.root, Path.ext))
                /\ dest' = dest
           ELSE /\ dest' = write_file(dest, tables, f, Path.root, Path.ext)
                /\ UNCHANGED <<scratch, zips>>

\* TableList.export(path, 'excel', compress)
export_excel ==
    \E compress \in BOOLEAN :
        /\ exported("excel", compress)
        /\ IF compress
           THEN /\ scratch' = WriteTo(<<>>, <<Path.root, Path.ext>>, Workbook(tables))
                /\ zips' = WriteTo(zips, Zipname(Path),
                                   <<[name |-> <<Path.root, Path.ext>>,
                                      data |-> Workbook(tables)]>>)
                /\ dest' = dest
           ELSE /\ dest' = WriteTo(dest, <<Path.root, Path.ext>>, Workbook(tables))
                /\ UNCHANGED <<scratch, zips>>

NextExport ==
    \/ export_files
    \/ export_excel

SpecExport == InitExport /\ [][NextExport]_vars

(***************************************************************************)
(* Vocabulary of the properties.                                           *)
(***************************************************************************)
EdgeFlags == {"left", "right", "top", "bottom"}
NRows == Len(rows)
NCols == Len(cols)
Pos == (1..NRows) \X (1..NCols)

\* the boundary flags that are true in grid cs, as (row, column, flag), 0-based
TrueFlags(cs) ==
    {<<r - 1, c - 1, fl>> : <<r, c, fl>> \in
        {t \in (1..Len(cs)) \X (1..NCols) \X EdgeFlags : cs[t[1]][t[2]][t[3]]}}

SpansOf(cs) == [p \in Pos |-> <<cs[p[1]][p[2]].hspan, cs[p[1]][p[2]].vspan>>]
EdgesOf(cs) == [p \in Pos |-> [fl \in EdgeFlags |-> cs[p[1]][p[2]][fl]]]
NoSpan(cs) == \A p \in Pos : ~cs[p[1]][p[2]].hspan /\ ~cs[p[1]][p[2]].vspan

PreFresh == pre = NewCells(cols, rows)
Called(op) == last.op = op

\* the last call was set_edges(vertical, horizontal, tol)
CalledEdges(vertical, horizontal, tol) ==
    last = [op |-> "set_edges", vertical |-> vertical,
            horizontal |-> horizontal, tol |-> tol]

\* the flags "left of column 0, every row"
LeftOfColumn0 == {<<r, 0, "left">> : r \in 0..(NRows - 1)}

(***************************************************************************)
(* C1.  The scenario cols=[(0,10),(10,20)], rows=[(20,10),(10,0)],         *)
(* tolerance 2, one vertical line at x=0 over the full height.             *)
(***************************************************************************)
C1_Grid == cols = <<<<0, 10>>, <<10, 20>>>> /\ rows = <<<<20, 10>>, <<10, 0>>>>

\* C1 as stated: vertical=[(0,20,0,0)] leaves left true on cells[0][0] and
\* cells[1][0] and every other boundary flag false.
C1_AsStated ==
    (C1_Grid /\ PreFresh /\ CalledEdges(<<<<0, 20, 0, 0>>>>, <<>>, 2))
        => TrueFlags(cells) = {<<0, 0, "left">>, <<1, 0, "left">>}

\* C1 (amended): with the endpoints in the order set_edges reads them, v[1]
\* the lower end and v[3] the upper end, vertical=[(0,0,0,20)] leaves left true
\* on cells[0][0] and cells[1][0] and every other boundary flag false; the
\* tuple (0,20,0,0) anchors at no row, is discarded and leaves every flag false.
C1_Scenario ==
    (C1_Grid /\ PreFresh) =>
        /\ CalledEdges(<<<<0, 0, 0, 20>>>>, <<>>, 2)
              => (TrueFlags(cells) = {<<0, 0, "left">>, <<1, 0, "left">>}
                  /\ err = "none")
        /\ CalledEdges(<<<<0, 20, 0, 0>>>>, <<>>, 2)
              => (TrueFlags(cells) = {} /\ err = "none")

C1_Witness ==
    /\ C1_Grid /\ PreFresh
    /\ CalledEdges(<<<<0, 0, 0, 20>>>>, <<>>, 2)
    /\ cells[1][1].left /\ cells[2][1].left

(***************************************************************************)
(* C2.  A horizontal line whose y matches no row top and whose start x     *)
(* anchors at column J sets bottom on the last row for columns J..K-1 (K   *)
(* the column anchoring its end x, or the column count) and no flag on     *)
(* another row, whatever lines of the same call came before it.  Stated    *)
(* for the calls whose only horizontal line is such a line: the grid is    *)
(* the grid left by the vertical lines, with those bottom flags added.     *)
(***************************************************************************)
C2_BottomLine(h, tol) ==
    /\ Matches(rows, At(h, 1), tol) = <<>>
    /\ Matches(cols, At(h, 0), tol) # <<>>

C2_Expected(h, tol) ==
    LET j == Matches(cols, At(h, 0), tol)
        k == Matches(cols, At(h, 2), tol)
        K == IF k # <<>> THEN k[1] ELSE NCols
    IN  MarkCols(set_edges_run(pre, cols, rows, last.vertical, <<>>, tol).cells,
                 j[1], K, NRows - 1, "bottom")

\* C2: after a call whose only horizontal line matches no row top and anchors
\* its start x, the call returned and the grid is the one the vertical lines
\* left, plus bottom on the last row for columns J..K-1.
C2_BottomOnLastRow ==
    (/\ Called("set_edges")
     /\ Len(last.horizontal) = 1
     /\ C2_BottomLine(last.horizontal[1], last.tol))
        => (err = "none" /\ cells = C2_Expected(last.horizontal[1], last.tol))

(***************************************************************************)
(* C3.  On a fresh Table, a single vertical line at column 0's left x that *)
(* runs from the top of row 0 (v[3]) to the bottom of the last row (v[1])  *)
(* sets left on every cell of column 0 and changes no other flag, for      *)
(* every tolerance >= 0.                                                   *)
(***************************************************************************)
C3_FullLeftLine == <<cols[1][1], rows[NRows][2], cols[1][1], rows[1][1]>>

\* C3: a fresh Table after set_edges([full-height line at column 0's left x],
\* [], tol >= 0) has left true on every cell of column 0 and no other flag.
C3_LeftColumnOnly ==
    (/\ PreFresh
     /\ Called("set_edges")
     /\ last.vertical = <<C3_FullLeftLine>>
     /\ last.horizontal = <<>>
     /\ last.tol >= 0)
        => (TrueFlags(cells) = LeftOfColumn0 /\ NoSpan(cells) /\ err = "none")

(***************************************************************************)
(* C4.  A vertical line whose x matches the left x of an interior column   *)
(* L (1 <= L <= M-1) within tolerance, anchored at start row J and end row *)
(* K, sets left on cell(r, L) and right on cell(r, L-1) for J <= r < K and *)
(* no flag on any other cell.                                              *)
(***************************************************************************)
C4_Rows(v, tol) ==
    LET j == Matches(rows, At(v, 3), tol)
        k == Matches(rows, At(v, 1), tol)
        K == IF k # <<>> THEN k[1] ELSE NRows
    IN  {r \in 0..(NRows - 1) : j[1] <= r /\ r < K}

C4_Expected(v, tol, L) ==
    {<<r, L, "left">> : r \in C4_Rows(v, tol)}
        \cup {<<r, L - 1, "right">> : r \in C4_Rows(v, tol)}

\* C4: a fresh Table after set_edges([v], [], tol), v anchored at a start row
\* and matching interior column L's left x within tol, has exactly left on
\* cell(r, L) and right on cell(r, L-1) for the rows J <= r < K.
C4_InteriorLine ==
    (/\ PreFresh
     /\ Called("set_edges")
     /\ Len(last.vertical) = 1
     /\ last.horizontal = <<>>
     /\ Matches(rows, At(last.vertical[1], 3), last.tol) # <<>>)
        => \A L \in 1..(NCols - 1) :
              isclose(At(last.vertical[1], 0), cols[L + 1][1], last.tol)
                  => TrueFlags(cells) = C4_Expected(last.vertical[1], last.tol, L)

(***************************************************************************)
(* C5.  set_border on a fresh N x M grid with N, M > 1 leaves exactly      *)
(* 2N+2M boundary flags true, each the outward-facing flag of a perimeter  *)
(* cell, and changes no span flag.                                         *)
(***************************************************************************)
Outward(t) ==
    \/ t[3] = "left" /\ t[2] = 0
    \/ t[3] = "right" /\ t[2] = NCols - 1
    \/ t[3] = "top" /\ t[1] = 0
    \/ t[3] = "bottom" /\ t[1] = NRows - 1

C10_Unanchored ==
    /\ \A n \in 1..Len(last.vertical) :
          Matches(rows, At(last.vertical[n], 3), last.tol) = <<>>
    /\ \A n \in 1..Len(last.horizontal) :
          Matches(cols, At(last.horizontal[n], 0), last.tol) = <<>>

\* C10: every set_edges call returns without an exception, and a call with
\* no anchored line leaves the grid as it was.
C10_NoError ==
    Called("set_edges") =>
        /\ err = "none"
        /\ C10_Unanchored => cells = pre

(***************************************************************************)
(* C6.  Under any sequence of set_all_edges, set_border, set_edges and     *)
(* set_span calls the grid keeps its rows x cols shape, no boundary flag   *)
(* goes from true to false (pre is the grid before the last call), and     *)
(* every cell's bound stays within 0..4.                                   *)
(***************************************************************************)
\* C6: the grid keeps its shape, no boundary flag true before the last call is
\* false after it, and bound is within 0..4.
C6_ShapeAndMonotone ==
    /\ DOMAIN cells = 1..NRows
    /\ \A r \in 1..NRows : DOMAIN cells[r] = 1..NCols
    /\ \A p \in Pos : \A fl \in EdgeFlags : pre[p[1]][p[2]][fl] => cells[p[1]][p[2]][fl]
    /\ \A p \in Pos : bound(cells[p[1]][p[2]]) \in 0..4

C6_Witness ==
    /\ nops >= 2
    /\ TrueFlags(pre) # {}
    /\ TrueFlags(pre) # TrueFlags(cells)
    /\ \E p \in Pos : bound(cells[p[1]][p[2]]) = 4

(***************************************************************************)
(* C7.  set_span on a Table whose span flags are all false: bound=4 ->     *)
(* neither flag; bound=3 missing left or right -> hspan only; bound=3      *)
(* missing top or bottom -> vspan only; bound=2 with exactly {left,right}  *)
(* -> vspan only; bound=2 with exactly {top,bottom} -> hspan only; two     *)
(* orthogonal edges or bound<=1 -> neither.  No boundary flag changes.     *)
(***************************************************************************)
C7_Hspan(c) ==
    \/ bound(c) = 3 /\ (~c.left \/ ~c.right)
    \/ bound(c) = 2 /\ c.top /\ c.bottom

C7_Vspan(c) ==
    \/ bound(c) = 3 /\ (~c.top \/ ~c.bottom)
    \/ bound(c) = 2 /\ c.left /\ c.right

\* C7: set_span on a grid without span flags marks each cell as the claim's
\* table says and changes no boundary flag.
C7_Classification ==
    (Called("set_span") /\ NoSpan(pre)) =>
        /\ \A p \in Pos :
              /\ cells[p[1]][p[2]].hspan = C7_Hspan(pre[p[1]][p[2]])
              /\ cells[p[1]][p[2]].vspan = C7_Vspan(pre[p[1]][p[2]])
        /\ EdgesOf(cells) = EdgesOf(pre)

C7_Witness ==
    /\ Called("set_span") /\ NoSpan(pre)
    /\ \E p \in Pos : bound(pre[p[1]][p[2]]) = 2 /\ cells[p[1]][p[2]].hspan
    /\ \E p \in Pos : bound(pre[p[1]][p[2]]) = 2 /\ ~cells[p[1]][p[2]].hspan
                         /\ ~cells[p[1]][p[2]].vspan

(***************************************************************************)
(* C8.  In every state reachable by any sequence of the four calls, no     *)
(* cell has hspan and vspan both true.                                     *)
(***************************************************************************)
\* C8: no cell has hspan and vspan both true, in any reachable state.
C8_SpanExclusive ==
    \A p \in Pos : ~(cells[p[1]][p[2]].hspan /\ cells[p[1]][p[2]].vspan)

\* set_span has run again on a cell it had marked before, after further
\* boundary assignment closed that cell
C8_Witness ==
    /\ Called("set_span")
    /\ \E p \in Pos : /\ pre[p[1]][p[2]].hspan
                      /\ bound(cells[p[1]][p[2]]) = 4

(***************************************************************************)
(* C9.  export with compress=true and format csv, json or html leaves      *)
(* exactly one archive, with as many entries as the list has tables, also  *)
(* when two tables carry the same (page, order).                           *)
(***************************************************************************)
C9_Compressed == call.compress /\ call.f \in {"csv", "json", "html"}

\* C9: a compressed csv / json / html export leaves exactly one archive whose
\* entry count is the number of tables.
C9_OneArchive ==
    C9_Compressed =>
        /\ DOMAIN zips = {Zipname(Path)}
        /\ Len(zips[Zipname(Path)]) = Len(tables)

C9_Witness ==
    /\ C9_Compressed
    /\ Len(tables) >= 2
    /\ tables[1] = tables[2]
    /\ Len(zips[Zipname(Path)]) = Len(tables)

====
